---- MODULE Spec2Model ----
(***************************************************************************)
(* A model of pycheribuild's target orchestrator (targets.py) and of the   *)
(* cross-compilation project base classes (crosscompileproject.py).        *)
(*                                                                         *)
(* Spec           AllTargets.run over the registry built by AllTargets()   *)
(* GraphSpec      AllTargets.topologicalSort over small registries         *)
(* CrossSpec      CrossCompileProject.__init__ and sizeof_void_ptr         *)
(* ToolchainSpec  CrossCompileCMakeProject._prepareToolchainFile           *)
(***************************************************************************)
EXTENDS Integers, Sequences, FiniteSets, TLC

\* ------------------------------------------------------------------ bounds
\* longest list of names in config.targets
MaxTargets == 2
\* depth at which the interpreter gives up a recursion (RecursionError); any
\* value above the longest dependency path of the registries modelled
RecursionLimit == 8

\* ----------------------------------------------------------------- helpers
Range(s) == {s[i] : i \in 1..Len(s)}

SeqsUpTo(S, n) == UNION {[1..k -> S] : k \in 0..n}

\* str ordering of every name the model uses, as sorted() sees it
SortedNames ==
    <<"A", "B", "C", "D",
      "all", "awk", "binutils", "cheribsd", "cherios", "cheritrace", "cherivis",
      "cmake", "disk-image", "elftoolchain", "gnustep", "llvm", "qemu", "run",
      "sdk", "sdk-sysroot">>

\* list(sorted(S))
Sorted(S) == SelectSeq(SortedNames, LAMBDA n : n \in S)

\* --------------------------------------------------------------- registry
\* Target.__init__: the immutable part of a target (project and _completed
\* are the variables project and completed)
Target(name, projectClass, dependencies) ==
    [name |-> name, dependencies |-> dependencies, projectClass |-> projectClass,
     pseudo |-> FALSE, sortedDependencies |-> <<>>]

\* PseudoTarget.__init__
PseudoTarget(name, dependencies) ==
    [name |-> name, dependencies |-> Range(dependencies), projectClass |-> "None",
     pseudo |-> TRUE, sortedDependencies |-> dependencies]

\* AllTargets.__init__: the list _allTargets
AllTargetsList(IS_FREEBSD) ==
    LET sdkTargetDeps == IF IS_FREEBSD THEN <<"llvm", "cheribsd">>
                         ELSE <<"awk", "elftoolchain", "binutils", "llvm">>
        cheriosTargetDeps == IF IS_FREEBSD THEN {"sdk"}
                             ELSE {"elftoolchain", "binutils", "llvm"}
        cheriosTarget == Target("cherios", "BuildCheriOS", cheriosTargetDeps)
        sdkSysrootTarget == Target("sdk-sysroot", "BuildSDK", Range(sdkTargetDeps))
        sdkTarget == PseudoTarget("sdk", sdkTargetDeps \o <<"sdk-sysroot">>)
        allTarget == PseudoTarget("all", <<"qemu", "sdk", "disk-image", "run">>)
    IN  << Target("binutils", "BuildBinutils", {}),
           Target("qemu", "BuildQEMU", {}),
           Target("cmake", "BuildCMake", {}),
           Target("llvm", "BuildLLVM", {}),
           Target("awk", "BuildAwk", {}),
           Target("elftoolchain", "BuildElfToolchain", {}),
           Target("cheritrace", "BuildCheriTrace", {"llvm"}),
           Target("cherivis", "BuildCheriVis", {"cheritrace"}),
           Target("gnustep", "BuildGnuStep", {}),
           Target("cheribsd", "BuildCHERIBSD", {"llvm"}),
           Target("disk-image", "BuildDiskImage", {"cheribsd", "qemu"}),
           sdkSysrootTarget,
           cheriosTarget,
           Target("run", "LaunchQEMU", {"qemu", "disk-image"}),
           allTarget, sdkTarget >>

\* self.targetMap = dict((t.name, t) for t in self._allTargets)
TargetMapOf(allTargets) ==
    [n \in {allTargets[i].name : i \in 1..Len(allTargets)} |->
        allTargets[CHOOSE i \in 1..Len(allTargets) :
                      /\ allTargets[i].name = n
                      /\ \A j \in (i+1)..Len(allTargets) : allTargets[j].name # n]]

\* names a user may pass that the registry does not know
UnknownNames == {"nosuch"}

\* ------------------------------------------------------------------ state
VARIABLES
    targetMap,                \* AllTargets.targetMap: name -> target
    targets,                  \* config.targets
    includeDependencies,      \* config.includeDependencies
    pc,                       \* where AllTargets.run stands
    explicitlyChosenTargets,  \* run: names resolved so far
    allDependencyNames,       \* topologicalSort: one closure per requested target
    data,                     \* topologicalSort: name -> unresolved dependencies
    chosenTargets,            \* run: the chosen execution list
    idx,                      \* position of the loop of run that is running
    project,                  \* name -> whether Target.project is set
    completed,                \* name -> Target._completed
    log,                      \* every call made, in program order
    raised,                   \* the exception that ended the run, or "none"
    crossConfig,              \* class attributes and options a CrossCompileProject reads
    crossSelf,                \* the attributes of one CrossCompileProject instance
    toolchainCall,            \* _prepareToolchainFile: self._cmakeTemplate and kwargs
    toolchainFile             \* _prepareToolchainFile: its locals and the file it writes

runVars == <<targetMap, targets, includeDependencies, pc, explicitlyChosenTargets,
             allDependencyNames, data, chosenTargets, idx, project, completed, log,
             raised>>

crossVars == <<crossConfig, crossSelf>>

toolchainVars == <<toolchainCall, toolchainFile>>

vars == <<runVars, crossVars, toolchainVars>>

Names == DOMAIN targetMap

\* ----------------------------------------------- recursiveDependencyNames
\* as NotExisting, had every call started from a fresh set
NotExisting_always(existing) == TRUE

\* `if not existing`: None and the empty set both take the branch
NotExisting(existing) == existing = {}

RECURSIVE RecursiveDependencyNames(_, _, _, _)
RECURSIVE RecursiveDependencyLoop(_, _, _, _, _)

\* One call. existing is the caller's set ({} for None). ret is the set returned,
\* arg the caller's set after the call (the same object as ret unless the call
\* made a fresh set), raised whether the recursion limit was hit.
RecursiveDependencyNames(tm, name, existing, depth) ==
    IF depth > RecursionLimit
    THEN [ret |-> {}, arg |-> existing, raised |-> TRUE]
    ELSE LET fresh == NotExisting(existing)
             r == RecursiveDependencyLoop(tm, Sorted(tm[name].dependencies), 1,
                                          IF fresh THEN {} ELSE existing, depth)
         IN  [ret |-> r.existing,
              arg |-> IF fresh THEN existing ELSE r.existing,
              raised |-> r.raised]

\* for dep in target.dependencies: existing.add(dep); recurse on targetMap[dep]
RecursiveDependencyLoop(tm, deps, i, existing, depth) ==
    IF i > Len(deps)
    THEN [existing |-> existing, raised |-> FALSE]
    ELSE LET added == existing \cup {deps[i]}
             call == RecursiveDependencyNames(tm, deps[i], added, depth + 1)
         IN  IF call.raised
             THEN [existing |-> call.arg, raised |-> TRUE]
             ELSE RecursiveDependencyLoop(tm, deps, i + 1, call.arg, depth)

\* ---------------------------------------------------------- topologicalSort
\* data = dict((t.name, set(t.dependencies)) for t in targets), then every
\* name of possiblyMissingDependencies not yet a key
InitialData(tm, ts, closures) ==
    LET possiblyMissingDependencies == UNION Range(closures)
    IN  [n \in Range(ts) \cup possiblyMissingDependencies |-> tm[n].dependencies]

\* ordered = set(item for item, dep in data.items() if not dep)
\* as Ordered, had the check for remaining dependencies been left out
Ordered_all(d) == DOMAIN d

Ordered(d) == {item \in DOMAIN d : d[item] = {}}

\* as RemoveOrdered, had it emptied the dependency sets it keeps
RemoveOrdered_clear(d, ordered) == [item \in DOMAIN d \ ordered |-> {}]

\* data = {item: (dep - ordered) for item, dep in data.items() if item not in ordered}
RemoveOrdered(d, ordered) == [item \in DOMAIN d \ ordered |-> d[item] \ ordered]

\* ------------------------------------------- checkSystemDeps and execute
\* The mutable state a call works on, and the failure the environment injects:
\* fail.at is the simple target whose collaborator fails, fail.in the place.
NoFail == [at |-> "-", in |-> "-"]

CallState == [project |-> project, completed |-> completed, log |-> log,
              raised |-> "none"]

Event(ev, name, caller) == [ev |-> ev, target |-> name, caller |-> caller]

Logged(st, ev, name, caller) == [st EXCEPT !.log = Append(@, Event(ev, name, caller))]

\* Target.checkSystemDeps
TargetCheckSystemDeps(name, caller, fail, st) ==
    LET called == Logged(st, "checkSystemDeps", name, caller)
        new == Logged(called, "projectClass", name, caller)
    IN  IF called.completed[name] THEN called
        ELSE IF fail = [at |-> name, in |-> "projectClass"]
        THEN [new EXCEPT !.raised = "ProjectInitError"]
        ELSE IF fail = [at |-> name, in |-> "checkSystemDependencies"]
        THEN [new EXCEPT !.project[name] = TRUE, !.raised = "SystemDependencyError"]
        ELSE [new EXCEPT !.project[name] = TRUE]

\* as Target.execute, without the `if self._completed: return` guard
TargetExecute_noguard(name, caller, fail, st) ==
    LET called == Logged(st, "execute", name, caller)
        process == Logged(called, "process", name, caller)
    IN  IF ~called.project[name]
        THEN [called EXCEPT !.raised = "AttributeError"]
        ELSE IF fail = [at |-> name, in |-> "process"]
        THEN [process EXCEPT !.raised = "ProcessError"]
        ELSE [process EXCEPT !.completed[name] = TRUE]

\* as Target.execute, with `self._completed = True` set before process() runs
TargetExecute_marksEarly(name, caller, fail, st) ==
    LET called == Logged(st, "execute", name, caller)
        process == Logged([called EXCEPT !.completed[name] = TRUE],
                          "process", name, caller)
    IN  IF called.completed[name] THEN called
        ELSE IF ~called.project[name]
        THEN [called EXCEPT !.raised = "AttributeError"]
        ELSE IF fail = [at |-> name, in |-> "process"]
        THEN [process EXCEPT !.raised = "ProcessError"]
        ELSE process

\* Target.execute
TargetExecute(name, caller, fail, st) ==
    LET called == Logged(st, "execute", name, caller)
        process == Logged(called, "process", name, caller)
    IN  IF called.completed[name] THEN called
        ELSE IF ~called.project[name]
        THEN [called EXCEPT !.raised = "AttributeError"]
        ELSE IF fail = [at |-> name, in |-> "process"]
        THEN [process EXCEPT !.raised = "ProcessError"]
        ELSE [process EXCEPT !.completed[name] = TRUE]

RECURSIVE CheckSystemDeps(_, _, _, _, _)
RECURSIVE PseudoCheckLoop(_, _, _, _, _)
RECURSIVE Execute(_, _, _, _, _)
RECURSIVE PseudoExecuteLoop(_, _, _, _, _)

\* PseudoTarget.checkSystemDeps: the loop over sortedDependencies from position i
PseudoCheckLoop(tm, name, i, fail, st) ==
    LET deps == tm[name].sortedDependencies
    IN  IF i > Len(deps) \/ st.raised # "none" THEN st
        ELSE IF st.completed[deps[i]]
        THEN PseudoCheckLoop(tm, name, i + 1, fail, st)
        ELSE PseudoCheckLoop(tm, name, i + 1, fail,
                             CheckSystemDeps(tm, deps[i], name, fail, st))

\* target.checkSystemDeps(config), dispatched on the class of the target
CheckSystemDeps(tm, name, caller, fail, st) ==
    IF tm[name].pseudo
    THEN LET called == Logged(st, "checkSystemDeps", name, caller)
         IN  IF called.completed[name] THEN called
             ELSE PseudoCheckLoop(tm, name, 1, fail, called)
    ELSE TargetCheckSystemDeps(name, caller, fail, st)

\* PseudoTarget.execute: the loop over sortedDependencies from position i
PseudoExecuteLoop(tm, name, i, fail, st) ==
    LET deps == tm[name].sortedDependencies
    IN  IF i > Len(deps) \/ st.raised # "none" THEN st
        ELSE IF st.completed[deps[i]]
        THEN PseudoExecuteLoop(tm, name, i + 1, fail, st)
        ELSE PseudoExecuteLoop(tm, name, i + 1, fail,
                               Execute(tm, deps[i], name, fail, st))

\* as PseudoMarkCompleted, had the flag been set in a `finally`
PseudoMarkCompleted_finally(name, st) == [st EXCEPT !.completed[name] = TRUE]

\* self._completed = True after the loop of PseudoTarget.execute
PseudoMarkCompleted(name, st) ==
    IF st.raised # "none" THEN st ELSE [st EXCEPT !.completed[name] = TRUE]

\* target.execute(), dispatched on the class of the target
Execute(tm, name, caller, fail, st) ==
    IF tm[name].pseudo
    THEN LET called == Logged(st, "execute", name, caller)
         IN  IF called.completed[name] THEN called
             ELSE PseudoMarkCompleted(name, PseudoExecuteLoop(tm, name, 1, fail, called))
    ELSE TargetExecute(name, caller, fail, st)

\* the targets a call on name can reach through sortedDependencies
RECURSIVE Callees(_, _)
Callees(tm, name) ==
    {name} \cup UNION {Callees(tm, d) : d \in Range(tm[name].sortedDependencies)}

Failures(tm, name, places) ==
    {NoFail} \cup {[at |-> n, in |-> p] : n \in Callees(tm, name), p \in places}

\* ------------------------------------------------------------ AllTargets.run
EmptyDict == [n \in {} |-> {}]

\* `targetName not in self.targetMap`
UnknownTarget(tm, targetName) == targetName \notin DOMAIN tm

\* as FatalUnknownTarget, had the loop gone on to the next name
FatalUnknownTarget_continues == [pc |-> "resolve", raised |-> "none"]

\* fatalError(...); sys.exit(1)
FatalUnknownTarget == [pc |-> "exit", raised |-> "SystemExit"]

\* as ExecuteLoopTarget, had the second loop walked the list backwards
ExecuteLoopTarget_reversed(chosen, i) == chosen[Len(chosen) + 1 - i]

\* `for target in chosenTargets` of the two loops of run
CheckLoopTarget(chosen, i) == chosen[i]
ExecuteLoopTarget(chosen, i) == chosen[i]

\* as ExtendChosen, had each level been put in front of the list
ExtendChosen_front(chosen, targetNames) == targetNames \o chosen

\* chosenTargets.extend(self.targetMap[t] for t in targetNames)
ExtendChosen(chosen, targetNames) == chosen \o targetNames

\* where run goes once chosenTargets is known
AfterChosen(chosen) == IF chosen = <<>> THEN "done" ELSE "check"

\* no cross-compilation project and no toolchain file are part of a run of targets
CrossIdle ==
    /\ crossConfig = [idle |-> TRUE]
    /\ crossSelf = [idle |-> TRUE]

ToolchainIdle ==
    /\ toolchainCall = [idle |-> TRUE]
    /\ toolchainFile = [idle |-> TRUE]

ResolveInit ==
    /\ pc = "resolve"
    /\ idx = 1
    /\ explicitlyChosenTargets = <<>>

RunInit ==
    /\ allDependencyNames = <<>>
    /\ data = EmptyDict
    /\ chosenTargets = <<>>
    /\ project = [n \in Names |-> FALSE]
    /\ completed = [n \in Names |-> FALSE]
    /\ log = <<>>
    /\ raised = "none"

Init ==
    /\ targetMap \in {TargetMapOf(AllTargetsList(b)) : b \in BOOLEAN}
    /\ targets \in SeqsUpTo(Names \cup UnknownNames, MaxTargets)
    /\ includeDependencies \in BOOLEAN
    /\ ResolveInit
    /\ RunInit
    /\ CrossIdle
    /\ ToolchainIdle

\* one pass of `for targetName in config.targets` on a registered name
ResolveTarget ==
    /\ pc = "resolve"
    /\ idx <= Len(targets)
    /\ ~UnknownTarget(targetMap, targets[idx])
    /\ explicitlyChosenTargets' = Append(explicitlyChosenTargets, targets[idx])
    /\ idx' = idx + 1
    /\ UNCHANGED <<crossVars, toolchainVars>>
    /\ UNCHANGED <<targetMap, targets, includeDependencies, pc, allDependencyNames,
                   data, chosenTargets, project, completed, log, raised>>

\* one pass of `for targetName in config.targets` on an unregistered name
RejectTarget ==
    /\ pc = "resolve"
    /\ idx <= Len(targets)
    /\ UnknownTarget(targetMap, targets[idx])
    /\ pc' = FatalUnknownTarget.pc
    /\ raised' = FatalUnknownTarget.raised
    /\ idx' = idx + 1
    /\ UNCHANGED <<crossVars, toolchainVars>>
    /\ UNCHANGED <<targetMap, targets, includeDependencies, explicitlyChosenTargets,
                   allDependencyNames, data, chosenTargets, project, completed, log>>

\* `if not config.includeDependencies: chosenTargets = explicitlyChosenTargets`
ChooseExplicit ==
    /\ pc = "resolve"
    /\ idx > Len(targets)
    /\ ~includeDependencies
    /\ chosenTargets' = explicitlyChosenTargets
    /\ pc' = AfterChosen(chosenTargets')
    /\ idx' = 1
    /\ UNCHANGED <<crossVars, toolchainVars>>
    /\ UNCHANGED <<targetMap, targets, includeDependencies, explicitlyChosenTargets,
                   allDependencyNames, data, project, completed, log, raised>>

\* topologicalSort up to its loop: data and the closures of the requested targets
TopoStart ==
    /\ pc = "resolve"
    /\ idx > Len(targets)
    /\ includeDependencies
    /\ LET ts == explicitlyChosenTargets
           calls == [i \in 1..Len(ts) |-> RecursiveDependencyNames(targetMap, ts[i], {}, 1)]
       IN  IF \E i \in 1..Len(ts) : calls[i].raised
           THEN /\ raised' = "RecursionError"
                /\ pc' = "exit"
                /\ UNCHANGED <<allDependencyNames, data>>
           ELSE /\ allDependencyNames' = [i \in 1..Len(ts) |-> calls[i].ret]
                /\ data' = InitialData(targetMap, ts, allDependencyNames')
                /\ pc' = "sort"
                /\ raised' = raised
    /\ UNCHANGED <<crossVars, toolchainVars>>
    /\ UNCHANGED <<targetMap, targets, includeDependencies, explicitlyChosenTargets,
                   chosenTargets, idx, project, completed, log>>

\* one pass of `while True` that yields a level; run extends chosenTargets by it
TopoLevel ==
    /\ pc = "sort"
    /\ Ordered(data) # {}
    /\ chosenTargets' = ExtendChosen(chosenTargets, Sorted(Ordered(data)))
    /\ data' = RemoveOrdered(data, Ordered(data))
    /\ UNCHANGED <<crossVars, toolchainVars>>
    /\ UNCHANGED <<targetMap, targets, includeDependencies, pc, explicitlyChosenTargets,
                   allDependencyNames, idx, project, completed, log, raised>>

\* the pass that breaks, and `assert not data`
TopoEnd ==
    /\ pc = "sort"
    /\ Ordered(data) = {}
    /\ IF DOMAIN data = {}
       THEN /\ pc' = AfterChosen(chosenTargets)
            /\ raised' = raised
       ELSE /\ pc' = "exit"
            /\ raised' = "AssertionError"
    /\ idx' = 1
    /\ UNCHANGED <<crossVars, toolchainVars>>
    /\ UNCHANGED <<targetMap, targets, includeDependencies, explicitlyChosenTargets,
                   allDependencyNames, data, chosenTargets, project, completed, log>>

\* one pass of `for target in chosenTargets: target.checkSystemDeps(config)`
CheckTarget ==
    /\ pc = "check"
    /\ idx <= Len(chosenTargets)
    /\ LET name == CheckLoopTarget(chosenTargets, idx) IN
       \E fail \in Failures(targetMap, name, {"projectClass", "checkSystemDependencies"}) :
          LET st == CheckSystemDeps(targetMap, name, "run", fail, CallState)
          IN  /\ project' = st.project
              /\ completed' = st.completed
              /\ log' = st.log
              /\ raised' = st.raised
              /\ IF st.raised # "none"
                 THEN pc' = "exit" /\ idx' = idx
                 ELSE IF idx = Len(chosenTargets)
                 THEN pc' = "execute" /\ idx' = 1
                 ELSE pc' = pc /\ idx' = idx + 1
    /\ UNCHANGED <<crossVars, toolchainVars>>
    /\ UNCHANGED <<targetMap, targets, includeDependencies, explicitlyChosenTargets,
                   allDependencyNames, data, chosenTargets>>

\* one pass of `for target in chosenTargets: target.execute()`
ExecuteTarget ==
    /\ pc = "execute"
    /\ idx <= Len(chosenTargets)
    /\ LET name == ExecuteLoopTarget(chosenTargets, idx) IN
       \E fail \in Failures(targetMap, name, {"process"}) :
          LET st == Execute(targetMap, name, "run", fail, CallState)
          IN  /\ project' = st.project
              /\ completed' = st.completed
              /\ log' = st.log
              /\ raised' = st.raised
              /\ IF st.raised # "none"
                 THEN pc' = "exit" /\ idx' = idx
                 ELSE IF idx = Len(chosenTargets)
                 THEN pc' = "done" /\ idx' = idx
                 ELSE pc' = pc /\ idx' = idx + 1
    /\ UNCHANGED <<crossVars, toolchainVars>>
    /\ UNCHANGED <<targetMap, targets, includeDependencies, explicitlyChosenTargets,
                   allDependencyNames, data, chosenTargets>>

Next ==
    \/ ResolveTarget
    \/ RejectTarget
    \/ ChooseExplicit
    \/ TopoStart
    \/ TopoLevel
    \/ TopoEnd
    \/ CheckTarget
    \/ ExecuteTarget

Spec == Init /\ [][Next]_vars

\* --------------------------------------------- topologicalSort on any registry
\* Registries of simple targets over GraphNames, with every dependency set
\* there is (cycles and self-dependencies included); GraphLeaf depends on nothing.
GraphNames == {"A", "B", "C", "D"}
GraphLeaf == "D"

GraphRegistries ==
    {[n \in GraphNames |-> Target(n, "Project", deps[n])] :
        deps \in {d \in [GraphNames -> SUBSET GraphNames] : d[GraphLeaf] = {}}}

\* topologicalSort(targets) called on a list of registered targets
GraphInit ==
    /\ targetMap \in GraphRegistries
    /\ targets \in SeqsUpTo(Names, MaxTargets)
    /\ includeDependencies = TRUE
    /\ pc = "resolve"
    /\ idx = Len(targets) + 1
    /\ explicitlyChosenTargets = targets
    /\ RunInit
    /\ CrossIdle
    /\ ToolchainIdle

GraphNext ==
    \/ TopoStart
    \/ TopoLevel
    \/ TopoEnd

GraphSpec == GraphInit /\ [][GraphNext]_vars

\* ---------------------------------------------------- CrossCompileProject
\* The widths config.cheriBits takes
CheriBits == {128, 256}

\* Paths are kept symbolic
SdkDir == "$CHERI_SDK"
SdkSysrootDir == "$CHERI_SDK/sysroot"
RootfsDir == "$CHERIBSD_ROOTFS"
RootfsExtraDir == "$CHERIBSD_ROOTFS/extra/project"
TestInstallPrefix == "$BUILD/test-install-prefix"

\* _installDir, the computed default of the installDir option; "None" when
\* fatalError returns and the function falls off its end
InstallDirDefault(crossCompileTarget, crossInstallDir) ==
    IF crossCompileTarget = "NATIVE" THEN SdkDir
    ELSE IF crossInstallDir = "CHERIBSD_ROOTFS" THEN RootfsExtraDir
    ELSE IF crossInstallDir = "SDK" THEN SdkSysrootDir
    ELSE "None"

\* get_host_triple (the release number of os.uname() kept at 12)
HostTriple(IS_FREEBSD) ==
    IF IS_FREEBSD THEN "x86_64-unknown-freebsd12" ELSE "x86_64-unknown-linux-gnu"

\* as CommonFlags, had -mcpu=cheri128 been added for every capability width
CommonFlags_anyWidth(c) ==
    IF c.crossCompileTarget = "NATIVE"
    THEN IF c.debugInfo THEN <<"-g">> ELSE <<>>
    ELSE <<"-integrated-as", "-pipe", "-msoft-float", "-G0">>
         \o (IF c.crossCompileTarget = "CHERI"
             THEN <<"-mabi=purecap", "-mcpu=cheri128">>
             ELSE <<"-mabi=n64">>)
         \o (IF ~c.noUseMxgot THEN <<"-mxgot">> ELSE <<>>)
         \o (IF c.debugInfo THEN <<"-g">> ELSE <<>>)

\* CrossCompileProject.__init__: self.COMMON_FLAGS
CommonFlags(c) ==
    IF c.crossCompileTarget = "NATIVE"
    THEN IF c.debugInfo THEN <<"-g">> ELSE <<>>
    ELSE <<"-integrated-as", "-pipe", "-msoft-float", "-G0">>
         \o (IF c.crossCompileTarget = "CHERI"
             THEN <<"-mabi=purecap">>
                  \o (IF c.cheriBits = 128 THEN <<"-mcpu=cheri128">> ELSE <<>>)
             ELSE <<"-mabi=n64">>)
         \o (IF ~c.noUseMxgot THEN <<"-mxgot">> ELSE <<>>)
         \o (IF c.debugInfo THEN <<"-g">> ELSE <<>>)

\* CrossCompileProject.__init__: self.targetTriple
TargetTriple(c) ==
    IF c.crossCompileTarget = "NATIVE" THEN HostTriple(c.IS_FREEBSD)
    ELSE IF c.crossCompileTarget = "CHERI" THEN "cheri-unknown-freebsd"
    ELSE "mips64-unknown-freebsd"

\* Path("/", self.installDir.relative_to(BuildCHERIBSD.rootfsDir(config)));
\* "ValueError" when installDir is not below the rootfs
RelativeToRootfs(installDir) ==
    IF installDir = RootfsExtraDir THEN "/extra/project" ELSE "ValueError"

\* as InstallAttributes, had the SDK branch of a cross build left destdir alone
InstallAttributes_noDestdir(c, self) ==
    IF c.crossCompileTarget = "NATIVE"
    THEN IF c.crossInstallDir = "SDK"
         THEN [self EXCEPT !.installDir = SdkDir]
         ELSE IF c.crossInstallDir = "CHERIBSD_ROOTFS"
         THEN [self EXCEPT !.installDir = TestInstallPrefix]
         ELSE IF self.installDir = "None"
         THEN [self EXCEPT !.raised = "AssertionError"]
         ELSE self
    ELSE IF c.crossInstallDir = "SDK"
         THEN [self EXCEPT !.installPrefix = "/usr/local"]
         ELSE IF c.crossInstallDir = "CHERIBSD_ROOTFS"
         THEN IF self.installDir = "None"
              THEN [self EXCEPT !.raised = "AttributeError"]
              ELSE IF RelativeToRootfs(self.installDir) = "ValueError"
              THEN [self EXCEPT !.raised = "ValueError"]
              ELSE [self EXCEPT !.installPrefix = RelativeToRootfs(self.installDir),
                                !.destdir = RootfsDir]
         ELSE IF self.installPrefix = "None" \/ self.destdir = "None"
         THEN [self EXCEPT !.raised = "AssertionError"]
         ELSE self

\* CrossCompileProject.__init__: the install attributes; raised names the
\* exception that ends the constructor, "none" when it returns
InstallAttributes(c, self) ==
    IF c.crossCompileTarget = "NATIVE"
    THEN IF c.crossInstallDir = "SDK"
         THEN [self EXCEPT !.installDir = SdkDir]
         ELSE IF c.crossInstallDir = "CHERIBSD_ROOTFS"
         THEN [self EXCEPT !.installDir = TestInstallPrefix]
         ELSE IF self.installDir = "None"
         THEN [self EXCEPT !.raised = "AssertionError"]
         ELSE self
    ELSE IF c.crossInstallDir = "SDK"
         THEN [self EXCEPT !.installPrefix = "/usr/local", !.destdir = SdkSysrootDir]
         ELSE IF c.crossInstallDir = "CHERIBSD_ROOTFS"
         THEN IF self.installDir = "None"
              THEN [self EXCEPT !.raised = "AttributeError"]
              ELSE IF RelativeToRootfs(self.installDir) = "ValueError"
              THEN [self EXCEPT !.raised = "ValueError"]
              ELSE [self EXCEPT !.installPrefix = RelativeToRootfs(self.installDir),
                                !.destdir = RootfsDir]
         ELSE IF self.installPrefix = "None" \/ self.destdir = "None"
         THEN [self EXCEPT !.raised = "AssertionError"]
         ELSE self

\* sizeof_void_ptr
SizeofVoidPtr(c) ==
    IF c.crossCompileTarget \in {"MIPS", "NATIVE"} THEN 8
    ELSE IF c.cheriBits = 128 THEN 16
    ELSE 32

\* The class attributes and options of a project class, and the attributes
\* Project.__init__ and the class leave on the instance before
\* CrossCompileProject.__init__ goes on: installDir is the option (its computed
\* default, or a path the user gave), installPrefix and destdir are set only
\* where a subclass sets them.
CrossInit ==
    /\ crossConfig \in [crossCompileTarget : {"NATIVE", "MIPS", "CHERI"},
                        crossInstallDir : {"NONE", "CHERIBSD_ROOTFS", "SDK"},
                        cheriBits : CheriBits,
                        noUseMxgot : BOOLEAN,
                        debugInfo : BOOLEAN,
                        IS_FREEBSD : BOOLEAN]
    /\ crossSelf \in [state : {"new"},
                      raised : {"none"},
                      installDir : {InstallDirDefault(crossConfig.crossCompileTarget,
                                                      crossConfig.crossInstallDir),
                                    "/custom/install"},
                      installPrefix : {"None", "/opt/preset"},
                      destdir : {"None", "/preset/destdir"},
                      COMMON_FLAGS : {<<>>},
                      targetTriple : {"None"},
                      sizeof_void_ptr : {0}]
    /\ includeDependencies = FALSE
    /\ targetMap = EmptyDict
    /\ targets = <<>>
    /\ pc = "idle"
    /\ idx = 1
    /\ explicitlyChosenTargets = <<>>
    /\ RunInit
    /\ ToolchainIdle

\* CrossCompileProject.__init__
Construct ==
    /\ crossSelf.state = "new"
    /\ LET installed == InstallAttributes(crossConfig, crossSelf)
       IN  IF installed.raised # "none"
           THEN crossSelf' = [installed EXCEPT !.state = "failed"]
           ELSE crossSelf' = [installed EXCEPT !.state = "constructed",
                                               !.COMMON_FLAGS = CommonFlags(crossConfig),
                                               !.targetTriple = TargetTriple(crossConfig)]
    /\ UNCHANGED <<runVars, crossConfig, toolchainVars>>

\* a read of the property sizeof_void_ptr
ReadSizeofVoidPtr ==
    /\ crossSelf.state = "constructed"
    /\ crossSelf.sizeof_void_ptr = 0
    /\ crossSelf' = [crossSelf EXCEPT !.sizeof_void_ptr = SizeofVoidPtr(crossConfig)]
    /\ UNCHANGED <<runVars, crossConfig, toolchainVars>>

CrossNext ==
    \/ Construct
    \/ ReadSizeofVoidPtr

CrossSpec == CrossInit /\ [][CrossNext]_vars

\* --------------------------- CrossCompileCMakeProject._prepareToolchainFile
\* longest template text
MaxTemplateLen == 5
\* most keyword arguments in one call
MaxKwargs == 2

\* Text is a sequence of characters. Templates are written over TemplateChars;
\* a key is one letter, its placeholder the letter between two "@".
TemplateChars == {"@", "F", "G"}
Keys == {"F", "G"}

Placeholder(key) == <<"@">> \o key \o <<"@">>

\* `sub in text`
Contains(text, sub) ==
    \E i \in 1..(Len(text) - Len(sub) + 1) : SubSeq(text, i, i + Len(sub) - 1) = sub

\* text.replace(old, new), old not empty: every occurrence, leftmost first,
\* the scan going on behind each occurrence replaced
RECURSIVE Replace(_, _, _)
Replace(text, old, new) ==
    IF Len(text) < Len(old) THEN text
    ELSE IF SubSeq(text, 1, Len(old)) = old
    THEN new \o Replace(SubSeq(text, Len(old) + 1, Len(text)), old, new)
    ELSE <<Head(text)>> \o Replace(Tail(text), old, new)

\* " ".join(items)
RECURSIVE Join(_)
Join(items) ==
    IF items = <<>> THEN <<>>
    ELSE IF Len(items) = 1 THEN items[1]
    ELSE items[1] \o <<" ">> \o Join(Tail(items))

\* the values a keyword argument takes: None, a list of texts, anything else
NoneValue == [kind |-> "None"]
StrValue(text) == [kind |-> "str", text |-> text]
ListValue(items) == [kind |-> "list", items |-> items]

\* strval = " ".join(value) if isinstance(value, list) else str(value)
StrVal(value) == IF value.kind = "list" THEN Join(value.items) ELSE value.text

Values ==
    {NoneValue,
     StrValue(<<>>), StrValue(<<"x">>), StrValue(<<"G">>), StrValue(<<"@", "G", "@">>),
     ListValue(<<>>), ListValue(<< <<"x">>, <<"y">> >>)}

\* keyword arguments: each key at most once, in the order of the call
KwargsSet ==
    {kw \in SeqsUpTo([key : {<<k>> : k \in Keys}, value : Values], MaxKwargs) :
        \A i, j \in 1..Len(kw) : kw[i].key = kw[j].key => i = j}

\* a call of _prepareToolchainFile(**kwargs) on a project with some template
ToolchainInit ==
    /\ toolchainCall \in [template : SeqsUpTo(TemplateChars, MaxTemplateLen),
                          kwargs : KwargsSet]
    /\ toolchainFile = [pc |-> "loop", i |-> 1,
                        configuredTemplate |-> toolchainCall.template,
                        written |-> FALSE, contents |-> <<>>]
    /\ includeDependencies = FALSE
    /\ targetMap = EmptyDict
    /\ targets = <<>>
    /\ pc = "idle"
    /\ idx = 1
    /\ explicitlyChosenTargets = <<>>
    /\ RunInit
    /\ CrossIdle

\* `assert "@" + key + "@" in configuredTemplate, key`
PlaceholderPresent(configuredTemplate, key) ==
    Contains(configuredTemplate, Placeholder(key))

\* one pass of `for key, value in kwargs.items()`
SubstituteKey ==
    /\ toolchainFile.pc = "loop"
    /\ toolchainFile.i <= Len(toolchainCall.kwargs)
    /\ LET kw == toolchainCall.kwargs[toolchainFile.i]
           configuredTemplate == toolchainFile.configuredTemplate
       IN  IF kw.value = NoneValue
           THEN toolchainFile' = [toolchainFile EXCEPT !.i = @ + 1]
           ELSE IF ~PlaceholderPresent(configuredTemplate, kw.key)
           THEN toolchainFile' = [toolchainFile EXCEPT !.pc = "AssertionError"]
           ELSE toolchainFile' =
                    [toolchainFile EXCEPT
                        !.i = @ + 1,
                        !.configuredTemplate =
                            Replace(configuredTemplate, Placeholder(kw.key), StrVal(kw.value))]
    /\ UNCHANGED <<runVars, crossVars, toolchainCall>>

\* `assert "@" not in configuredTemplate` and self.writeFile(...)
WriteToolchainFile ==
    /\ toolchainFile.pc = "loop"
    /\ toolchainFile.i > Len(toolchainCall.kwargs)
    /\ IF "@" \in Range(toolchainFile.configuredTemplate)
       THEN toolchainFile' = [toolchainFile EXCEPT !.pc = "AssertionError"]
       ELSE toolchainFile' = [toolchainFile EXCEPT
                                 !.pc = "written",
                                 !.written = TRUE,
                                 !.contents = toolchainFile.configuredTemplate]
    /\ UNCHANGED <<runVars, crossVars, toolchainCall>>

ToolchainNext ==
    \/ SubstituteKey
    \/ WriteToolchainFile

ToolchainSpec == ToolchainInit /\ [][ToolchainNext]_vars

\* ================================================================ properties
\* The dependency relation read off the registry, independently of the code.
RECURSIVE DependencyClosure(_, _)
DependencyClosure(tm, S) ==
    LET more == S \cup UNION {tm[n].dependencies : n \in S}
    IN  IF more = S THEN S ELSE DependencyClosure(tm, more)

\* the names reachable from n through one or more dependency edges
ReachableFrom(tm, n) == DependencyClosure(tm, tm[n].dependencies)

Acyclic(tm) == \A n \in DOMAIN tm : n \notin ReachableFrom(tm, n)

\* a cycle can be reached from one of the requested names
CycleReachable(tm, requested) ==
    \E n \in requested \cup UNION {ReachableFrom(tm, r) : r \in requested} :
        n \in ReachableFrom(tm, n)

Precedes(s, a, b) ==
    \E i, j \in 1..Len(s) : s[i] = a /\ s[j] = b /\ i < j

NoDuplicates(s) == \A i, j \in 1..Len(s) : s[i] = s[j] => i = j

IsPrefix(s, t) == Len(s) <= Len(t) /\ SubSeq(t, 1, Len(s)) = s

\* topologicalSort has returned
Sorted_Done == pc \in {"check", "done"}

\* C1: on an acyclic registry, for any requested list, every node of the
\* flattened output of topologicalSort stands strictly after each of its
\* declared dependencies, and every requested node is in the output.
C1_DependenciesFirst ==
    Acyclic(targetMap) =>
        /\ \A i \in 1..Len(chosenTargets) :
              \A d \in targetMap[chosenTargets[i]].dependencies :
                 \E j \in 1..(i - 1) : chosenTargets[j] = d
        /\ Sorted_Done => Range(targets) \subseteq Range(chosenTargets)

\* a diamond A -> {B, C} -> D sorted in three levels
C1_Witness ==
    /\ Sorted_Done
    /\ targets = <<"A">>
    /\ targetMap["A"].dependencies = {"B", "C"}
    /\ targetMap["B"].dependencies = {"D"}
    /\ targetMap["C"].dependencies = {"D"}
    /\ chosenTargets = <<"D", "B", "C", "A">>

\* C2: when a cycle is reachable from the requested nodes, scheduling ends
\* with the cyclic-dependency assertion and in no other way.
C2_CycleReported ==
    CycleReachable(targetMap, Range(targets)) =>
        /\ ~Sorted_Done
        /\ raised \in {"none", "AssertionError"}

\* C8: on an acyclic registry recursiveDependencyNames(t) returns exactly the
\* names reachable from t through one or more dependency edges, never t itself.
C8_ClosureExact ==
    (Acyclic(targetMap) /\ ~(pc = "resolve")) =>
        /\ raised = "none"
        /\ Len(allDependencyNames) = Len(targets)
        /\ \A i \in 1..Len(targets) :
              /\ allDependencyNames[i] = ReachableFrom(targetMap, targets[i])
              /\ targets[i] \notin allDependencyNames[i]

\* A -> B -> C gives {B, C}, and the leaf C gives the empty set
C8_Witness ==
    /\ targets = <<"A", "C">>
    /\ targetMap["A"].dependencies = {"B"}
    /\ targetMap["B"].dependencies = {"C"}
    /\ targetMap["C"].dependencies = {}
    /\ allDependencyNames = <<{"B", "C"}, {}>>

\* ---- what the log says
Count(ev, n) == Cardinality({i \in 1..Len(log) : log[i].ev = ev /\ log[i].target = n})

\* the targets of the calls of ev made by the loops of run, in order
RunCalls(ev) ==
    LET calls == SelectSeq(log, LAMBDA e : e.ev = ev /\ e.caller = "run")
    IN  [i \in 1..Len(calls) |-> calls[i].target]

\* chosenTargets has its final value
Chosen_Done == pc \in {"check", "execute", "done"} \/ (pc = "exit" /\ log # <<>>)

\* C3: a simple node that has been executed with success has had its project's
\* process() invoked exactly once, however many execute calls it received.
C3_ExecuteIdempotent ==
    \A n \in Names :
        (~targetMap[n].pseudo /\ Count("execute", n) >= 1 /\ completed[n])
            => Count("process", n) = 1

\* a node executed twice: once through the group "all", once by the run loop
C3_Witness ==
    /\ pc = "done"
    /\ targets = <<"all", "qemu">>
    /\ Count("execute", "qemu") = 2
    /\ Count("process", "qemu") = 1

\* C4: with an unregistered name anywhere in config.targets, run never gets
\* past name resolution: no checkSystemDeps, no execute, and it ends in
\* sys.exit(1).
C4_UnknownNameExits ==
    (\E i \in 1..Len(targets) : targets[i] \notin Names) =>
        /\ log = <<>>
        /\ pc \in {"resolve", "exit"}
        /\ pc = "exit" => raised = "SystemExit"
        /\ pc = "resolve" => (idx <= Len(targets) /\ raised = "none")

\* the unknown name stands after a valid one
C4_Witness ==
    /\ targets = <<"qemu", "nosuch">>
    /\ explicitlyChosenTargets = <<"qemu">>
    /\ pc = "exit"
    /\ raised = "SystemExit"

\* C5: the run loop's checkSystemDeps calls and its execute calls each follow
\* chosenTargets in order, and no execute call is made before every chosen
\* node has been checked.
C5_TwoPhasesInListOrder ==
    /\ IsPrefix(RunCalls("checkSystemDeps"), chosenTargets)
    /\ IsPrefix(RunCalls("execute"), chosenTargets)
    /\ RunCalls("execute") # <<>> => RunCalls("checkSystemDeps") = chosenTargets
    /\ \A i, j \in 1..Len(log) :
          (log[i].ev = "execute" /\ log[j].ev = "checkSystemDeps") => j < i
    /\ pc = "done" => RunCalls("execute") = chosenTargets

C5_Witness ==
    /\ pc = "done"
    /\ includeDependencies
    /\ targets = <<"run", "cherivis">>
    /\ Len(chosenTargets) = 7
    /\ RunCalls("execute") = chosenTargets

\* ---- C6
PhaseAErrors == {"ProjectInitError", "SystemDependencyError"}
PhaseBErrors == {"ProcessError", "AttributeError"}

LastProcess ==
    LET at == {i \in 1..Len(log) : log[i].ev = "process"}
    IN  log[CHOOSE i \in at : \A j \in at : j <= i].target

C6_FailedState ==
    /\ raised # "none" => pc = "exit"
    /\ raised \in PhaseAErrors =>
          /\ RunCalls("checkSystemDeps") = SubSeq(chosenTargets, 1, idx)
          /\ \A i \in 1..Len(log) : log[i].ev # "execute"
    /\ raised \in PhaseBErrors =>
          /\ RunCalls("execute") = SubSeq(chosenTargets, 1, idx)
          /\ ~completed[chosenTargets[idx]]
          /\ raised = "ProcessError" => ~completed[LastProcess]

C6_FailedStep ==
    /\ pc # "exit"
    /\ \A n \in Names : completed[n] => completed'[n]

\* C6: a failure in Phase A leaves every later node unchecked and nothing
\* executed; a failure in Phase B leaves every later node unexecuted and the
\* failing node not Completed; nothing happens after a failure, and no node
\* ever goes back from Completed.
C6_FailFast == [](C6_FailedState) /\ [][C6_FailedStep]_vars

\* the second of several chosen nodes fails in its pipeline
C6_Witness ==
    /\ pc = "exit"
    /\ raised = "ProcessError"
    /\ idx = 2
    /\ Len(chosenTargets) > 2
    /\ completed[chosenTargets[1]]
    /\ ~completed[chosenTargets[2]]

\* C7: requesting "run" with dependencies included gives a list with qemu and
\* disk-image before run, cheribsd and qemu before disk-image, and no name twice.
C7_LaunchOrder ==
    (targets = <<"run">> /\ includeDependencies /\ Chosen_Done) =>
        /\ Precedes(chosenTargets, "qemu", "run")
        /\ Precedes(chosenTargets, "disk-image", "run")
        /\ Precedes(chosenTargets, "cheribsd", "disk-image")
        /\ Precedes(chosenTargets, "qemu", "disk-image")
        /\ NoDuplicates(chosenTargets)

C7_Witness ==
    /\ targets = <<"run">>
    /\ includeDependencies
    /\ pc = "done"
    /\ chosenTargets = <<"llvm", "qemu", "cheribsd", "disk-image", "run">>

\* ---- CrossCompileProject
\* every spelling of a -mcpu flag
McpuFlags == {"-mcpu=cheri128", "-mcpu=cheri256"}

SizeRead == crossSelf.sizeof_void_ptr # 0

\* C10: a constructed Cheri project has -mabi=purecap and -mcpu=cheri128 in
\* COMMON_FLAGS and a pointer size of 16 at width 128, no -mcpu flag and a
\* pointer size of 32 at width 256; Mips and Native projects have a pointer
\* size of 8 at either width.
C10_FlagsAndPointerSize ==
    crossSelf.state = "constructed" =>
        /\ (crossConfig.crossCompileTarget = "CHERI" /\ crossConfig.cheriBits = 128) =>
              /\ "-mabi=purecap" \in Range(crossSelf.COMMON_FLAGS)
              /\ "-mcpu=cheri128" \in Range(crossSelf.COMMON_FLAGS)
              /\ SizeRead => crossSelf.sizeof_void_ptr = 16
        /\ (crossConfig.crossCompileTarget = "CHERI" /\ crossConfig.cheriBits = 256) =>
              /\ Range(crossSelf.COMMON_FLAGS) \cap McpuFlags = {}
              /\ SizeRead => crossSelf.sizeof_void_ptr = 32
        /\ crossConfig.crossCompileTarget \in {"MIPS", "NATIVE"} =>
              /\ SizeRead => crossSelf.sizeof_void_ptr = 8

\* a Cheri project of width 256 whose pointer size has been read
C10_Witness ==
    /\ crossSelf.state = "constructed"
    /\ crossConfig.crossCompileTarget = "CHERI"
    /\ crossConfig.cheriBits = 256
    /\ crossSelf.COMMON_FLAGS = <<"-integrated-as", "-pipe", "-msoft-float", "-G0",
                                  "-mabi=purecap", "-mxgot", "-g">>
    /\ crossSelf.sizeof_void_ptr = 32

\* ---- dependencies before dependents
\* this step invokes the build pipeline (process) of the simple target n
ProcessInvoked(n) ==
    \E i \in (Len(log) + 1)..Len(log') :
        log'[i].ev = "process" /\ log'[i].target = n

\* this step marks the group target n completed
GroupMarkedCompleted(n) ==
    targetMap[n].pseudo /\ ~completed[n] /\ completed'[n]

\* C12: with includeDependencies, a call of the execute loop that invokes the
\* build pipeline of a target, or marks a group target completed, starts with
\* every declared dependency of that target completed already; and a completed
\* target stays completed, so the dependencies are still completed at the
\* moment of the invocation.
C12_DependenciesCompletedFirst ==
    [][includeDependencies =>
         /\ \A n \in Names :
                ProcessInvoked(n) \/ GroupMarkedCompleted(n) =>
                    \A dep \in targetMap[n].dependencies : completed[dep]
         /\ \A n \in Names : completed[n] => completed'[n]]_vars

\* "all" requested with its dependencies: run is launched and the group marked
C12_Witness ==
    /\ includeDependencies
    /\ targets = <<"all">>
    /\ pc = "done"
    /\ Count("process", "run") = 1
    /\ Count("process", "disk-image") = 1
    /\ completed["all"]
    /\ completed["sdk"]

\* ---- execute of a group
\* what this step appends to the log
NewEvents == SubSeq(log', Len(log) + 1, Len(log'))

\* this step calls execute on g
ExecuteCalled(g) == \E i \in 1..Len(NewEvents) :
    NewEvents[i].ev = "execute" /\ NewEvents[i].target = g

\* the targets this step calls execute on from the loop of the group g, in order
ChildExecutes(g) ==
    LET calls == SelectSeq(NewEvents, LAMBDA e : e.ev = "execute" /\ e.caller = g)
    IN  [i \in 1..Len(calls) |-> calls[i].target]

\* this step ends with an exception raised inside execute of the group g: the
\* last call logged was made from the loop of g or of a group below it
ExecuteFailed(g) ==
    /\ raised' # "none"
    /\ NewEvents[Len(NewEvents)].caller \in Callees(targetMap, g)

\* the children of g that are not completed, in the declared order
PendingChildren(g) ==
    SelectSeq(targetMap[g].sortedDependencies, LAMBDA c : ~completed[c])

\* C13: execute on a group that is not completed calls execute on its children
\* that are not completed, in the declared order and on no other target; a
\* child gets completed by that call alone; the group is marked completed when
\* every call has returned, with all children completed, and is not marked
\* when a child's execute fails.
C13_GroupExecute ==
    [][\A g \in Names :
          targetMap[g].pseudo /\ ExecuteCalled(g) /\ ~completed[g] =>
              /\ IsPrefix(ChildExecutes(g), PendingChildren(g))
              /\ \A c \in Range(targetMap[g].sortedDependencies) :
                     ~completed[c] /\ completed'[c] => c \in Range(ChildExecutes(g))
              /\ ~ExecuteFailed(g) =>
                     /\ ChildExecutes(g) = PendingChildren(g)
                     /\ \A c \in Range(targetMap[g].sortedDependencies) : completed'[c]
                     /\ completed'[g]
              /\ ExecuteFailed(g) => ~completed'[g]]_vars

\* "all" executed after qemu, without the dependencies: qemu is skipped, the
\* other children are executed in the declared order, then "all" is marked
C13_Witness ==
    /\ ~includeDependencies
    /\ targets = <<"qemu", "all">>
    /\ pc = "done"
    /\ SelectSeq(log, LAMBDA e : e.ev = "execute" /\ e.caller = "all")
           = <<Event("execute", "sdk", "all"), Event("execute", "disk-image", "all"),
               Event("execute", "run", "all")>>
    /\ completed["all"]

\* ---- project instances
\* C14: the project class of a target is instantiated at most once in a run;
\* a later checkSystemDeps call on the target creates no other instance.
C14_InstantiatedOnce ==
    \A n \in Names : Count("projectClass", n) <= 1

\* ---- install attributes
PrefixAndDestdirPopulated ==
    crossSelf.installPrefix # "None" /\ crossSelf.destdir # "None"

InstallDirPopulated == crossSelf.installDir # "None"

\* C11 as stated: a constructed project has either an install prefix with a
\* destination root, or an install directory, never both and never neither.
C11_ExactlyOnePopulated ==
    crossSelf.state = "constructed" =>
        (PrefixAndDestdirPopulated /\ ~InstallDirPopulated)
            \/ (InstallDirPopulated /\ ~PrefixAndDestdirPopulated)

\* C11: a constructed cross build (Mips, Cheri) has an install prefix and a
\* destination root, a constructed native build has an install directory; the
\* other attributes may be populated as well.
C11_InstallAttributesPopulated ==
    crossSelf.state = "constructed" =>
        IF crossConfig.crossCompileTarget = "NATIVE"
        THEN InstallDirPopulated
        ELSE PrefixAndDestdirPopulated

\* a Cheri build into the rootfs: the prefix is computed from the install
\* directory, and both are set
C11_Witness ==
    /\ crossSelf.state = "constructed"
    /\ crossConfig.crossCompileTarget = "CHERI"
    /\ crossConfig.crossInstallDir = "CHERIBSD_ROOTFS"
    /\ crossSelf.installDir = RootfsExtraDir
    /\ crossSelf.installPrefix = "/extra/project"
    /\ crossSelf.destdir = RootfsDir

\* ---- _prepareToolchainFile
\* a key supplied with a value whose placeholder the template does not hold
KeyWithoutPlaceholder ==
    \E i \in 1..Len(toolchainCall.kwargs) :
        /\ toolchainCall.kwargs[i].value # NoneValue
        /\ ~Contains(toolchainCall.template, Placeholder(toolchainCall.kwargs[i].key))

\* C9: a toolchain file that is written holds no "@"; and when a key supplied
\* with a value has no placeholder in the template, the call ends in a failure
\* and writes no file.
C9_SubstitutionChecked ==
    /\ toolchainFile.written => "@" \notin Range(toolchainFile.contents)
    /\ KeyWithoutPlaceholder =>
          /\ ~toolchainFile.written
          /\ toolchainFile.pc \in {"loop", "AssertionError"}
====
